---- MODULE Spec2Model ----
(***************************************************************************)
(* A model of package gitconfig (src/gitconfig.go): the Value Reader       *)
(* (Config.get and the typed accessors built on it) and the Struct Loader  *)
(* (Config.Load).                                                          *)
(*                                                                         *)
(* A Go string is a sequence of one-character tokens ("1", "k", LF, NUL);  *)
(* a command-line flag such as --null is one opaque token.  Go slices and  *)
(* arrays are indexed from 0, the sequences here from 1: slot i of the     *)
(* code is element i + 1 of the model.                                     *)
(***************************************************************************)
EXTENDS Integers, Sequences, FiniteSets, TLC

VARIABLES
    source,   \* Config.Source of the handle in use
    store,    \* the configuration store: key -> stored raw values, in declaration order
    fault,    \* how the external "git" executable behaves
    arg,      \* what kind of value the caller passes to Load
    fields,   \* the target record's type: one descriptor per field, in declaration order
    fresh,    \* TRUE when the caller passes a zero-valued record
    rec,      \* the target record's field values
    pc,       \* position of the call in progress
    idx,      \* Load's loop variable i (1-based)
    errs,     \* Load's local LoadError mapping
    ret,      \* the error value Load returned
    res,      \* the result of the last typed accessor call
    queries,  \* argument lists of the external queries issued so far
    peer      \* the locals and the target record of a second Load call, while it is not running

vars == <<source, store, fault, arg, fields, fresh, rec, pc, idx, errs, ret, res, queries, peer>>

(***************************** bounds ***************************************)
\* Longest list of values a key holds in the store.
MaxVals == 2
\* Most fields a target record declares.
MaxFields == 2
\* Largest capacity of an array field loaded on its own.
MaxCap == 3

(***************************** strings **************************************)
NUL == "NUL"
LF == "LF"

\* A one-token string.
S(tok) == <<tok>>

Range(f) == {f[x] : x \in DOMAIN f}

\* The sequences over A of length n or less.
RECURSIVE SeqsUpTo(_, _)
SeqsUpTo(A, n) ==
    IF n = 0 THEN {<<>>}
    ELSE LET P == SeqsUpTo(A, n - 1)
         IN  P \cup {Append(s, a) : s \in {p \in P : Len(p) = n - 1}, a \in A}

Min(a, b) == IF a < b THEN a ELSE b

RECURSIVE Pow2(_)
Pow2(n) == IF n = 0 THEN 1 ELSE 2 * Pow2(n - 1)

\* strings.Split(s, sep) for a one-character sep: the segments between the
\* separators, n separators giving n + 1 segments (one empty segment for "").
RECURSIVE SplitFrom(_, _, _, _)
SplitFrom(s, sep, k, cur) ==
    IF k > Len(s) THEN <<cur>>
    ELSE IF s[k] = sep THEN <<cur>> \o SplitFrom(s, sep, k + 1, <<>>)
    ELSE SplitFrom(s, sep, k + 1, Append(cur, s[k]))

Split(s, sep) == SplitFrom(s, sep, 1, <<>>)

(***************************** errors ***************************************)
\* Go error values, by dynamic type.  status is the process's exit status for
\* a RunError; why tells the errors of one type apart.
NilErr == [t |-> "nil", status |-> 0, why |-> ""]
\* RunError{Msg, Err: *exec.ExitError}
RunError(st) == [t |-> "RunError", status |-> st, why |-> ""]
\* what cmd.Output returns when the process could not be started (*exec.Error)
SpawnError == [t |-> "execError", status |-> 0, why |-> ""]
\* *strconv.NumError
NumError(why) == [t |-> "NumError", status |-> 0, why |-> why]
\* what fmt.Errorf returns
ErrorString(why) == [t |-> "errorString", status |-> 0, why |-> why]

\* IsInvalidKeyError without the test of the exit status.
IsInvalidKeyErrorAnyStatus(err) == err.t = "RunError"

\* IsInvalidKeyError: err is a RunError whose wait status is exit status 1.
IsInvalidKeyError(err) == err.t = "RunError" /\ err.status = 1

(***************************** the store ************************************)
KeyA == <<"a">>
KeyB == <<"b">>
Keys == {KeyA, KeyB}

Home == <<"/", "h">>

\* Raw values a key may hold: the empty string, an integer with a multiplier
\* (1024, true), an integer no int8 holds (300, true), zero (0, false) and a
\* path that holds a newline.
V_empty == <<>>
V_1k == <<"1", "k">>
V_300 == <<"3", "0", "0">>
V_0 == <<"0">>
V_path == <<"~", "/", LF>>
V_no == <<"n", "o">>
\* a number no int64 holds
V_big == <<"9", "9", "9", "9", "9", "9", "9", "9", "9", "9", "9", "9", "9", "9", "9", "9", "9", "9", "9", "9">>

Vals == {V_empty, V_1k, V_300, V_0, V_path, V_big}

Digits == {"0", "1", "2", "3", "4", "5", "6", "7", "8", "9"}

DigitVal(c) ==
    CASE c = "0" -> 0 [] c = "1" -> 1 [] c = "2" -> 2 [] c = "3" -> 3 [] c = "4" -> 4
      [] c = "5" -> 5 [] c = "6" -> 6 [] c = "7" -> 7 [] c = "8" -> 8 [] c = "9" -> 9

DigitChar(d) ==
    CASE d = 0 -> "0" [] d = 1 -> "1" [] d = 2 -> "2" [] d = 3 -> "3" [] d = 4 -> "4"
      [] d = 5 -> "5" [] d = 6 -> "6" [] d = 7 -> "7" [] d = 8 -> "8" [] d = 9 -> "9"

AllDigits(s) == Len(s) > 0 /\ \A k \in 1..Len(s) : s[k] \in Digits

RECURSIVE DecVal(_)
DecVal(s) == IF s = <<>> THEN 0 ELSE 10 * DecVal(SubSeq(s, 1, Len(s) - 1)) + DigitVal(s[Len(s)])

RECURSIVE FormatNat(_)
FormatNat(n) == IF n < 10 THEN <<DigitChar(n)>> ELSE Append(FormatNat(n \div 10), DigitChar(n % 10))

FormatInt(n) == IF n < 0 THEN <<"-">> \o FormatNat(0 - n) ELSE FormatNat(n)

\* A multiplier of "git config --int".
Mul(c) == CASE c = "k" -> 1024 [] c = "m" -> 1048576 [] c = "g" -> 1073741824 [] OTHER -> 1

\* git rejects what is no number and what no int64 holds.
GitNumber(sign, num, mul) ==
    IF AllDigits(num) /\ Len(num) < 19 THEN [ok |-> TRUE, out |-> FormatInt(sign * DecVal(num) * mul)]
    ELSE [ok |-> FALSE, out |-> <<>>]

GitUnsigned(sign, body) ==
    IF Len(body) > 0 /\ body[Len(body)] \in {"k", "m", "g"}
    THEN GitNumber(sign, SubSeq(body, 1, Len(body) - 1), Mul(body[Len(body)]))
    ELSE GitNumber(sign, body, 1)

\* "git config --int": an optional sign, digits and an optional k/m/g
\* multiplier, printed in full as a decimal number.
GitInt(v) == IF Len(v) > 0 /\ v[1] = "-" THEN GitUnsigned(-1, Tail(v)) ELSE GitUnsigned(1, v)

Str_true == <<"t", "r", "u", "e">>
Str_false == <<"f", "a", "l", "s", "e">>

BoolOfInt(n) ==
    IF n.ok THEN [ok |-> TRUE, out |-> IF n.out = <<"0">> THEN Str_false ELSE Str_true]
    ELSE [ok |-> FALSE, out |-> <<>>]

\* "git config --bool": any accepted spelling, printed as true or false.
GitBool(v) ==
    IF v \in {Str_true, <<"y", "e", "s">>, <<"o", "n">>} THEN [ok |-> TRUE, out |-> Str_true]
    ELSE IF v \in {Str_false, V_no, <<"o", "f", "f">>, <<>>} THEN [ok |-> TRUE, out |-> Str_false]
    ELSE BoolOfInt(GitInt(v))

\* "git config --path": a leading ~/ becomes the home directory.
GitPath(v) ==
    IF Len(v) >= 2 /\ v[1] = "~" /\ v[2] = "/"
    THEN [ok |-> TRUE, out |-> Home \o Tail(v)]
    ELSE [ok |-> TRUE, out |-> v]

Hints == {S("--bool"), S("--int"), S("--path")}

GitConvert(hint, v) ==
    CASE hint = S("--bool") -> GitBool(v)
      [] hint = S("--int") -> GitInt(v)
      [] hint = S("--path") -> GitPath(v)
      [] OTHER -> [ok |-> TRUE, out |-> v]

\* Each value followed by a NUL ("--null").
RECURSIVE NulJoin(_)
NulJoin(vs) == IF vs = <<>> THEN <<>> ELSE Head(vs) \o <<NUL>> \o NulJoin(Tail(vs))

Faults == {"none", "nospawn", "empty0", "noterm", "nohint"}

\* What cmd.Output() sees of the process: whether it started, its exit
\* status and its standard output.
Exit(st, out) == [spawned |-> TRUE, status |-> st, out |-> out]

NotSpawned == [spawned |-> FALSE, status |-> 0, out |-> <<>>]

\* The values of the key as the store holds them (none for an unknown key).
Stored(key) == IF key \in DOMAIN store THEN store[key] ELSE <<>>

\* The type hint among the arguments before the key.
HintOf(args) ==
    IF \E k \in 1..(Len(args) - 1) : args[k] \in Hints
    THEN args[CHOOSE k \in 1..(Len(args) - 1) : args[k] \in Hints]
    ELSE <<>>

Converted(hint, vals) == [k \in 1..Len(vals) |-> GitConvert(hint, vals[k])]

\* git prints the converted values, or dies of the first it cannot convert.
GitPrint(conv) ==
    IF \E k \in 1..Len(conv) : ~conv[k].ok THEN Exit(128, <<>>)
    ELSE Exit(0, NulJoin([k \in 1..Len(conv) |-> conv[k].out]))

Unterminated(p) == IF p.status = 0 THEN Exit(0, SubSeq(p.out, 1, Len(p.out) - 1)) ELSE p

\* The external process "git config --get-all --null ... <key>".  fault
\* "nospawn": the executable cannot be started; "empty0": it prints nothing
\* and exits 0; "noterm": its output lacks the final NUL; "nohint": it
\* ignores the type hint; "none": git as documented (status 1 for a key with
\* no value, 128 for a value the hint cannot convert).
GitRun(vals, hint) ==
    IF fault = "nospawn" THEN NotSpawned
    ELSE IF fault = "empty0" THEN Exit(0, <<>>)
    ELSE IF vals = <<>> THEN Exit(1, <<>>)
    ELSE IF fault = "nohint" THEN GitPrint(Converted(<<>>, vals))
    ELSE IF fault = "noterm" THEN Unterminated(GitPrint(Converted(hint, vals)))
    ELSE GitPrint(Converted(hint, vals))

GitProcess(args) == GitRun(Stored(args[Len(args)]), HintOf(args))

(***************************** Value Reader *********************************)
\* An argument list with the extra arguments ahead of the Source's.
GetArgsExtraFirst(key, extra) == <<S("config"), S("--get-all"), S("--null")>> \o extra \o source \o <<key>>

\* The argument list Config.get builds.
GetArgs(key, extra) == <<S("config"), S("--get-all"), S("--null")>> \o source \o extra \o <<key>>

\* ss[1:] in place of ss[:len(ss)-1].
DropFirst(ss) == Tail(ss)

\* ss[:len(ss)-1]
DropLast(ss) == SubSeq(ss, 1, Len(ss) - 1)

\* What Config.get makes of the process's outcome: the values, or the error.
Outcome(p) ==
    IF ~p.spawned THEN [vals |-> <<>>, err |-> SpawnError]
    ELSE IF p.status # 0 THEN [vals |-> <<>>, err |-> RunError(p.status)]
    ELSE [vals |-> DropLast(Split(p.out, NUL)), err |-> NilErr]

\* Config.get
get(key, extra) == Outcome(GitProcess(GetArgs(key, extra)))

\* Go's panic on values[len(values)-1] or values[0] of an empty list.
Panicked(op, key) == [op |-> op, key |-> key, val |-> <<>>, err |-> NilErr, panic |-> TRUE]

Returned(op, key, val, err) == [op |-> op, key |-> key, val |-> val, err |-> err, panic |-> FALSE]

\* return values[len(values)-1], nil
LastValue(op, key, g) ==
    IF g.err # NilErr THEN Returned(op, key, <<>>, g.err)
    ELSE IF g.vals = <<>> THEN Panicked(op, key)
    ELSE Returned(op, key, g.vals[Len(g.vals)], NilErr)

\* Config.GetString
GetString(key) == LastValue("GetString", key, get(key, <<>>))

\* Config.GetStrings
AllValues(op, key, g) == Returned(op, key, g.vals, g.err)

GetStrings(key) == AllValues("GetStrings", key, get(key, <<>>))

\* Config.GetPath
GetPath(key) == LastValue("GetPath", key, get(key, <<S("--path")>>))

\* Config.GetPaths
GetPaths(key) == AllValues("GetPaths", key, get(key, <<S("--path")>>))

\* return values[0] == "true", nil
BoolValue(op, key, g) ==
    IF g.err # NilErr THEN Returned(op, key, FALSE, g.err)
    ELSE IF g.vals = <<>> THEN Panicked(op, key)
    ELSE Returned(op, key, g.vals[1] = Str_true, NilErr)

\* Config.GetBool
GetBool(key) == BoolValue("GetBool", key, get(key, <<S("--bool")>>))

\* The largest integer the checker holds stands for 1<<63 - 1, the value
\* strconv.ParseInt returns with a range error.
MaxInt64 == 2147483647

MaxInt64Digits == <<"9", "2", "2", "3", "3", "7", "2", "0", "3", "6", "8", "5", "4", "7", "7", "5", "8", "0", "7">>

\* Whether the decimal number ds lies above lim, both without sign.
DigitsAbove(ds, lim) ==
    \/ Len(ds) > Len(lim)
    \/ /\ Len(ds) = Len(lim)
       /\ \E k \in 1..Len(ds) :
              /\ DigitVal(ds[k]) > DigitVal(lim[k])
              /\ \A j \in 1..(k - 1) : ds[j] = lim[j]

ParseDigits(neg, ds) ==
    IF ~AllDigits(ds) THEN [val |-> 0, err |-> NumError("syntax")]
    ELSE IF DigitsAbove(ds, MaxInt64Digits)
         THEN [val |-> IF neg THEN 0 - MaxInt64 ELSE MaxInt64, err |-> NumError("range")]
    ELSE [val |-> IF neg THEN 0 - DecVal(ds) ELSE DecVal(ds), err |-> NilErr]

\* strconv.ParseInt(s, 10, 64): an optional sign and one or more digits;
\* 0 with a syntax error otherwise, the nearest bound with a range error
\* for a number outside 64 bits.
ParseInt(s) ==
    IF Len(s) > 0 /\ s[1] \in {"+", "-"} THEN ParseDigits(s[1] = "-", Tail(s))
    ELSE ParseDigits(FALSE, s)

\* return strconv.ParseInt(values[0], 10, 64)
IntValue(op, key, g) ==
    IF g.err # NilErr THEN Returned(op, key, 0, g.err)
    ELSE IF g.vals = <<>> THEN Panicked(op, key)
    ELSE Returned(op, key, ParseInt(g.vals[1]).val, ParseInt(g.vals[1]).err)

\* Config.GetInt64
GetInt64(key) == IntValue("GetInt64", key, get(key, <<S("--int")>>))

(***************************** sources **************************************)
SourceDefault == <<>>
SourceGlobal == <<S("--global")>>
SourceLocal == <<S("--local")>>
SourceFile(file) == <<S("--file"), file>>
SourceBlob(blob) == <<S("--blob"), blob>>

\* The handles Default, Global, Local, File(".gitmodules") and Blob("HEAD:.gitmodules").
Sources == {SourceDefault, SourceGlobal, SourceLocal,
            SourceFile(S(".gitmodules")), SourceBlob(S("HEAD:.gitmodules"))}

(***************************** LoadError ************************************)
\* A LoadError is a map from field name to error; isnil tells Go's nil map
\* from an empty one.
EmptyMap == [x \in {} |-> NilErr]

NewLoadError == [isnil |-> FALSE, m |-> EmptyMap]

NilLoadError == [isnil |-> TRUE, m |-> EmptyMap]

\* errs[name] = err
Put(le, name, err) ==
    [isnil |-> FALSE, m |-> [x \in DOMAIN le.m \cup {name} |-> IF x = name THEN err ELSE le.m[x]]]

MapLen(le) == Cardinality(DOMAIN le.m)

\* LoadError.OfField: m[name], the nil error for a name with no entry.
OfField(le, name) == IF name \in DOMAIN le.m THEN le.m[name] ELSE NilErr

\* LoadError.Any: nil (a nil LoadError) for a map without entries, the map otherwise.
LoadErrorAny(le) == IF MapLen(le) = 0 THEN NilLoadError ELSE le

\* An error interface value: its dynamic type and, for a LoadError, the map.
\* A caller's err == nil holds for NilError alone.
NotReturned == [dyn |-> "-", isnil |-> TRUE, m |-> EmptyMap]

NilError == [dyn |-> "nil", isnil |-> TRUE, m |-> EmptyMap]

ErrorfError == [dyn |-> "errorString", isnil |-> FALSE, m |-> EmptyMap]

\* The conversion of a LoadError to the error interface at "return errs.Any()":
\* the interface holds the type LoadError, also around a nil map.
AsError(le) == [dyn |-> "LoadError", isnil |-> le.isnil, m |-> le.m]

\* No second call.
NoPeer ==
    [id |-> 0, fields |-> <<>>, rec |-> <<>>, pc |-> "-", idx |-> 0,
     errs |-> NilLoadError, ret |-> NotReturned, queries |-> <<>>]

(***************************** target records *******************************)
T_String == [kind |-> "String", elem |-> "", w |-> 0, cap |-> 0]
T_Int8 == [kind |-> "Int", elem |-> "", w |-> 8, cap |-> 0]
T_Int64 == [kind |-> "Int", elem |-> "", w |-> 64, cap |-> 0]
T_Bool == [kind |-> "Bool", elem |-> "", w |-> 0, cap |-> 0]
T_SliceString == [kind |-> "Slice", elem |-> "string", w |-> 0, cap |-> 0]
T_SliceInt == [kind |-> "Slice", elem |-> "int", w |-> 0, cap |-> 0]
T_ArrayString == [kind |-> "Array", elem |-> "string", w |-> 0, cap |-> 1]
T_ArrayInt == [kind |-> "Array", elem |-> "int", w |-> 0, cap |-> 1]
T_Ptr == [kind |-> "Ptr", elem |-> "", w |-> 0, cap |-> 0]

Types == {T_String, T_Int8, T_Int64, T_Bool, T_SliceString, T_SliceInt, T_ArrayString, T_ArrayInt, T_Ptr}

\* The types the package documents as supported.
Supported(ty) == ty \in {T_String, T_Int8, T_Int64, T_Bool, T_SliceString, T_ArrayString}

\* The gitconfig struct tags: none, a key, a key with an option.
NoTag == <<>>
TagA == KeyA
TagB == KeyB
TagAOpt == <<"a", ",", "o">>

\* A field: its type, whether reflect can set it (an exported field), its tag.
F(ty, settable, tag) == [ty |-> ty, settable |-> settable, tag |-> tag]

\* The fields a target record is built of: every type under a key the store
\* may hold; and, as the tests on CanSet and on the tag come before the
\* switch on the kind, a few types under a key the store never holds, under
\* a tag with an option, without a tag, and unexported.
FieldSpecs ==
    {F(ty, TRUE, TagA) : ty \in Types}
        \cup {F(ty, TRUE, TagB) : ty \in {T_String, T_SliceInt}}
        \cup {F(T_Bool, TRUE, TagAOpt), F(T_Ptr, TRUE, NoTag), F(T_String, FALSE, TagA)}

Names == <<"F1", "F2", "F3", "F4">>

Name(i) == Names[i]

\* The zero value of a type, and a value a caller may have stored before the call.
Zero(ty) ==
    CASE ty.kind = "String" -> <<>>
      [] ty.kind = "Int" -> 0
      [] ty.kind = "Bool" -> FALSE
      [] ty.kind = "Slice" -> <<>>
      [] ty.kind = "Array" -> [k \in 1..ty.cap |-> IF ty.elem = "string" THEN <<>> ELSE 0]
      [] OTHER -> "nil"

Old(ty) ==
    CASE ty.kind = "String" -> <<"o", "l", "d">>
      [] ty.kind = "Int" -> 5
      [] ty.kind = "Bool" -> TRUE
      [] ty.kind = "Slice" -> IF ty.elem = "string" THEN <<<<"o">>>> ELSE <<5>>
      [] ty.kind = "Array" -> [k \in 1..ty.cap |-> IF ty.elem = "string" THEN <<"o">> ELSE 5]
      [] OTHER -> "ptr"

\* The record's values when Load is called.
Before(fs, fr) == [k \in 1..Len(fs) |-> IF fr THEN Zero(fs[k].ty) ELSE Old(fs[k].ty)]

\* A SetInt that stops at the bounds of the field's type.
NarrowClamp(x, w) ==
    IF w >= 32 THEN x
    ELSE IF x >= Pow2(w - 1) THEN Pow2(w - 1) - 1
    ELSE IF x < 0 - Pow2(w - 1) THEN 0 - Pow2(w - 1)
    ELSE x

\* reflect.Value.SetInt on a field of w bits: the low w bits of x, as a
\* signed number.  Every integer of the model lies inside 32 bits and more.
Narrow(x, w) ==
    IF w >= 32 THEN x
    ELSE LET m == Pow2(w)
             r == x % m
         IN  IF r >= m \div 2 THEN r - m ELSE r

\* The whole tag taken for the key.
KeyOfWholeTag(tag) == tag

\* key = strings.Split(tag, ",")[0]
KeyOf(tag) == Split(tag, ",")[1]

(***************************** Struct Loader ********************************)
Field == fields[idx]

InLoop == pc = "loop" /\ idx <= Len(fields)

\* The loop body reaches the switch: the field can be set and has a tag.
Dispatched(kind) ==
    /\ InLoop
    /\ Field.settable
    /\ Field.tag # <<>>
    /\ Field.ty.kind = kind

\* A failure branch that also clears the field.
FailZeroing(err) ==
    /\ errs' = Put(errs, Name(idx), err)
    /\ rec' = [rec EXCEPT ![idx] = Zero(fields[idx].ty)]
    /\ idx' = idx + 1
    /\ UNCHANGED pc

\* errs[ft.Name] = err; continue
Fail(err) ==
    /\ errs' = Put(errs, Name(idx), err)
    /\ idx' = idx + 1
    /\ UNCHANGED <<rec, pc>>

\* fv.Set...(v), then the next field
Store(v) ==
    /\ rec' = [rec EXCEPT ![idx] = v]
    /\ idx' = idx + 1
    /\ UNCHANGED <<errs, pc>>

\* A run-time panic leaves Load without a return value.
Panic ==
    /\ pc' = "panic"
    /\ UNCHANGED <<rec, errs, idx>>

Frame == UNCHANGED <<source, store, fault, arg, fields, fresh, ret, res, peer>>

Asked(key, extra) == queries' = Append(queries, GetArgs(key, extra))

\* A precondition failure reported through the LoadError of the field loop.
LoadRejectAsLoadError ==
    /\ pc = "call"
    /\ arg # "ptrStruct"
    /\ ret' = AsError(Put(NewLoadError, "", ErrorString("not a pointer")))
    /\ pc' = "done"
    /\ UNCHANGED <<source, store, fault, arg, fields, fresh, rec, idx, errs, res, queries, peer>>

\* Load's precondition check fails: v is no pointer, or points to no struct.
LoadReject ==
    /\ pc = "call"
    /\ arg # "ptrStruct"
    /\ ret' = ErrorfError
    /\ pc' = "done"
    /\ UNCHANGED <<source, store, fault, arg, fields, fresh, rec, idx, errs, res, queries, peer>>

\* The precondition check passes: errs := LoadError{}, i := 0.
LoadEnter ==
    /\ pc = "call"
    /\ arg = "ptrStruct"
    /\ errs' = NewLoadError
    /\ idx' = 1
    /\ pc' = "loop"
    /\ UNCHANGED <<source, store, fault, arg, fields, fresh, rec, ret, res, queries, peer>>

\* A field that cannot be set, or has no tag: continue.
LoadSkip ==
    /\ InLoop
    /\ ~Field.settable \/ Field.tag = <<>>
    /\ idx' = idx + 1
    /\ UNCHANGED <<rec, errs, pc, queries>>
    /\ Frame

\* s, err := c.GetString(key); fv.SetString(s)
SetString(r) ==
    /\ IF r.panic THEN Panic
       ELSE IF r.err # NilErr THEN Fail(r.err)
       ELSE Store(r.val)
    /\ Asked(r.key, <<>>)

\* case reflect.String
LoadString ==
    /\ Dispatched("String")
    /\ SetString(GetString(KeyOf(Field.tag)))
    /\ Frame

\* i, err := c.GetInt64(key); fv.SetInt(i)
SetInt(r) ==
    /\ IF r.panic THEN Panic
       ELSE IF r.err # NilErr THEN Fail(r.err)
       ELSE Store(Narrow(r.val, Field.ty.w))
    /\ Asked(r.key, <<S("--int")>>)

\* case reflect.Int, reflect.Int8, reflect.Int16, reflect.Int32, reflect.Int64
LoadInt ==
    /\ Dispatched("Int")
    /\ SetInt(GetInt64(KeyOf(Field.tag)))
    /\ Frame

\* ss, err := c.GetStrings(key); fv.Set(a new []string of the values):
\* Set panics on a field of another type.
SetSlice(r) ==
    /\ IF r.err # NilErr THEN Fail(r.err)
       ELSE IF Field.ty.elem # "string" THEN Panic
       ELSE Store(r.val)
    /\ Asked(r.key, <<>>)

\* case reflect.Slice
LoadSlice ==
    /\ Dispatched("Slice")
    /\ SetSlice(GetStrings(KeyOf(Field.tag)))
    /\ Frame

\* for i := 0; i < fv.Len() && i < len(ss); i++ { fv.Index(i).SetString(ss[i]) }:
\* SetString panics on an element that is no string.
SetArray(r, n) ==
    /\ IF r.err # NilErr THEN Fail(r.err)
       ELSE IF n > 0 /\ Field.ty.elem # "string" THEN Panic
       ELSE Store([k \in 1..Field.ty.cap |-> IF k <= n THEN r.val[k] ELSE rec[idx][k]])
    /\ Asked(r.key, <<>>)

FillArray(r) == SetArray(r, Min(Field.ty.cap, Len(r.val)))

\* case reflect.Array
LoadArray ==
    /\ Dispatched("Array")
    /\ FillArray(GetStrings(KeyOf(Field.tag)))
    /\ Frame

\* b, err := c.GetBool(key); fv.SetBool(b)
SetBool(r) ==
    /\ IF r.panic THEN Panic
       ELSE IF r.err # NilErr THEN Fail(r.err)
       ELSE Store(r.val)
    /\ Asked(r.key, <<S("--bool")>>)

\* case reflect.Bool
LoadBool ==
    /\ Dispatched("Bool")
    /\ SetBool(GetBool(KeyOf(Field.tag)))
    /\ Frame

\* A switch without the default case: the field is passed over in silence.
LoadDefaultSilent ==
    /\ InLoop
    /\ Field.settable
    /\ Field.tag # <<>>
    /\ Field.ty.kind \notin {"String", "Int", "Slice", "Array", "Bool"}
    /\ idx' = idx + 1
    /\ UNCHANGED <<rec, errs, pc, queries>>
    /\ Frame

\* default: cannot populate field
LoadDefault ==
    /\ InLoop
    /\ Field.settable
    /\ Field.tag # <<>>
    /\ Field.ty.kind \notin {"String", "Int", "Slice", "Array", "Bool"}
    /\ Fail(ErrorString("cannot populate field"))
    /\ UNCHANGED queries
    /\ Frame

\* return errs.Any()
LoadReturn ==
    /\ pc = "loop"
    /\ idx > Len(fields)
    /\ ret' = AsError(LoadErrorAny(errs))
    /\ pc' = "done"
    /\ UNCHANGED <<source, store, fault, arg, fields, fresh, rec, idx, errs, res, queries, peer>>

\* The values the store of a Load call holds (a number no int8 holds, which
\* is also true as a boolean, and a path, which is neither a number nor a
\* boolean), and the ways git behaves there (a git that prints nothing never
\* reads the store: one store stands for all).
LoadVals == {V_300, V_path}

LoadFaults == {"none", "empty0"}

Args == {"nil", "struct", "ptrNil", "ptrOther", "ptrStruct"}

NoResult == Returned("-", <<>>, <<>>, NilErr)

\* A caller is about to call c.Load(v).
Init ==
    /\ source = SourceGlobal
    /\ store \in {[x \in {KeyA} |-> v] : v \in SeqsUpTo(LoadVals, MaxVals)}
    /\ fault \in LoadFaults
    /\ fault = "empty0" => store[KeyA] = <<>>
    /\ arg \in Args
    /\ fields \in SeqsUpTo(FieldSpecs, MaxFields)
    /\ arg = "struct" => Len(fields) <= 1
    /\ arg \in {"nil", "ptrNil", "ptrOther"} => fields = <<>>
    /\ fresh \in BOOLEAN
    /\ rec = Before(fields, fresh)
    /\ pc = "call"
    /\ idx = 0
    /\ errs = NilLoadError
    /\ ret = NotReturned
    /\ res = NoResult
    /\ queries = <<>>
    /\ peer = NoPeer

Next ==
    \/ LoadReject
    \/ LoadEnter
    \/ LoadSkip
    \/ LoadString
    \/ LoadInt
    \/ LoadSlice
    \/ LoadArray
    \/ LoadBool
    \/ LoadDefault
    \/ LoadReturn

Spec == Init /\ [][Next]_vars

(***************************** accessor calls *******************************)
\* One call of a typed accessor on the handle, from an untouched state.
Call(r, extra) ==
    /\ pc = "acc"
    /\ res' = r
    /\ queries' = Append(queries, GetArgs(r.key, extra))
    /\ pc' = IF r.panic THEN "panic" ELSE "returned"
    /\ UNCHANGED <<source, store, fault, arg, fields, fresh, rec, idx, errs, ret, peer>>

CallGetString == \E key \in Keys : Call(GetString(key), <<>>)

CallGetStrings == \E key \in Keys : Call(GetStrings(key), <<>>)

CallGetPath == \E key \in Keys : Call(GetPath(key), <<S("--path")>>)

CallGetPaths == \E key \in Keys : Call(GetPaths(key), <<S("--path")>>)

CallGetBool == \E key \in Keys : Call(GetBool(key), <<S("--bool")>>)

CallGetInt64 == \E key \in Keys : Call(GetInt64(key), <<S("--int")>>)

\* A caller is about to call one accessor of a handle.
InitAcc ==
    /\ source \in Sources
    /\ store \in {[x \in {KeyA} |-> v] : v \in SeqsUpTo(Vals, MaxVals)}
    /\ fault \in Faults
    /\ fault \in {"nospawn", "empty0"} => store[KeyA] = <<>>
    /\ arg = "nil"
    /\ fields = <<>>
    /\ fresh = TRUE
    /\ rec = <<>>
    /\ pc = "acc"
    /\ idx = 0
    /\ errs = NilLoadError
    /\ ret = NotReturned
    /\ res = NoResult
    /\ queries = <<>>
    /\ peer = NoPeer

NextAcc ==
    \/ CallGetString
    \/ CallGetStrings
    \/ CallGetPath
    \/ CallGetPaths
    \/ CallGetBool
    \/ CallGetInt64

SpecAcc == InitAcc /\ [][NextAcc]_vars

(***************************** array fields *********************************)
\* The type [n]string.
ArrayOfString(n) == [kind |-> "Array", elem |-> "string", w |-> 0, cap |-> n]

\* A caller is about to call c.Load(&v) for a record of one [n]string field.
InitArr ==
    /\ source = SourceDefault
    /\ store \in {[x \in {KeyA} |-> v] : v \in SeqsUpTo(LoadVals, MaxVals)}
    /\ fault \in LoadFaults
    /\ fault = "empty0" => store[KeyA] = <<>>
    /\ arg = "ptrStruct"
    /\ fields \in {<<F(ArrayOfString(n), TRUE, TagA)>> : n \in 0..MaxCap}
    /\ fresh \in BOOLEAN
    /\ rec = Before(fields, fresh)
    /\ pc = "call"
    /\ idx = 0
    /\ errs = NilLoadError
    /\ ret = NotReturned
    /\ res = NoResult
    /\ queries = <<>>
    /\ peer = NoPeer

NextArr ==
    \/ LoadEnter
    \/ LoadArray
    \/ LoadReturn

SpecArr == InitArr /\ [][NextArr]_vars

(***************************** integer fields *******************************)
\* The types int8, int16, int32 and int64.
IntOfWidth(w) == [kind |-> "Int", elem |-> "", w |-> w, cap |-> 0]

Widths == {8, 16, 32, 64}

\* Integers inside and outside int8 and int16, of both signs.
V_200 == <<"2", "0", "0">>
V_m1 == <<"-", "1">>
V_m129 == <<"-", "1", "2", "9">>
V_40000 == <<"4", "0", "0", "0", "0">>

IntVals == {V_0, V_1k, V_200, V_300, V_m1, V_m129, V_40000, V_path}

\* A caller is about to call c.Load(&v) for a record of one integer field.
InitInt ==
    /\ source = SourceDefault
    /\ store \in {[x \in {KeyA} |-> v] : v \in SeqsUpTo(IntVals, MaxVals)}
    /\ fault \in {"none", "nohint"}
    /\ arg = "ptrStruct"
    /\ fields \in {<<F(IntOfWidth(w), TRUE, TagA)>> : w \in Widths}
    /\ fresh \in BOOLEAN
    /\ rec = Before(fields, fresh)
    /\ pc = "call"
    /\ idx = 0
    /\ errs = NilLoadError
    /\ ret = NotReturned
    /\ res = NoResult
    /\ queries = <<>>
    /\ peer = NoPeer

NextInt ==
    \/ LoadEnter
    \/ LoadInt
    \/ LoadReturn

SpecInt == InitInt /\ [][NextInt]_vars

(***************************** concurrent calls *****************************)
\* The call that is running, as a record of its locals and its target.
Running(id) ==
    [id |-> id, fields |-> fields, rec |-> rec, pc |-> pc, idx |-> idx,
     errs |-> errs, ret |-> ret, queries |-> queries]

\* A scheduler in which the LoadError under construction is one variable
\* the two calls share.
SwitchSharedErrs ==
    /\ peer.id # 0
    /\ peer.pc \notin {"done", "panic"}
    /\ peer' = Running(3 - peer.id)
    /\ fields' = peer.fields
    /\ rec' = peer.rec
    /\ pc' = peer.pc
    /\ idx' = peer.idx
    /\ ret' = peer.ret
    /\ queries' = peer.queries
    /\ UNCHANGED <<source, store, fault, arg, fresh, res, errs>>

\* The scheduler takes the running call off between two of its steps and
\* puts the other call on: every local of Load (rv, t, i, errs) and the
\* record v points to belong to one call; the handle and the store are shared.
Switch ==
    /\ peer.id # 0
    /\ peer.pc \notin {"done", "panic"}
    /\ peer' = Running(3 - peer.id)
    /\ fields' = peer.fields
    /\ rec' = peer.rec
    /\ pc' = peer.pc
    /\ idx' = peer.idx
    /\ errs' = peer.errs
    /\ ret' = peer.ret
    /\ queries' = peer.queries
    /\ UNCHANGED <<source, store, fault, arg, fresh, res>>

\* The fields of the records two concurrent calls load: fields that load,
\* fields that fail (an absent key, a kind without a case) and a field that
\* panics.
ConFieldSpecs ==
    {F(T_String, TRUE, TagA), F(T_Int8, TRUE, TagA), F(T_String, TRUE, TagB),
     F(T_Ptr, TRUE, TagA), F(T_SliceInt, TRUE, TagA)}

ConRecords == {<<f, g>> : f \in ConFieldSpecs, g \in ConFieldSpecs}

\* The stores of the concurrent calls: the key absent, a number, a path, both.
ConStores == {<<>>, <<V_300>>, <<V_path>>, <<V_path, V_300>>}

\* Two callers are about to call c.Load, each with a pointer to its own
\* record, which holds values from before.
InitCon ==
    /\ source = SourceGlobal
    /\ store \in {[x \in {KeyA} |-> v] : v \in ConStores}
    /\ fault = "none"
    /\ arg = "ptrStruct"
    /\ fields \in ConRecords
    /\ fresh = FALSE
    /\ rec = Before(fields, fresh)
    /\ pc = "call"
    /\ idx = 0
    /\ errs = NilLoadError
    /\ ret = NotReturned
    /\ res = NoResult
    /\ queries = <<>>
    /\ peer \in {[id |-> 2, fields |-> fs, rec |-> Before(fs, fresh), pc |-> "call", idx |-> 0,
                   errs |-> NilLoadError, ret |-> NotReturned, queries |-> <<>>] : fs \in ConRecords}

NextCon ==
    \/ Switch
    \/ LoadEnter
    \/ LoadString
    \/ LoadInt
    \/ LoadSlice
    \/ LoadDefault
    \/ LoadReturn

SpecCon == InitCon /\ [][NextCon]_vars

(***************************** vocabulary of the claims *********************)
\* The field is one Load manages: it can be set and has a tag.
Managed(f) == f.settable /\ f.tag # <<>>

\* The kinds the switch of Load has a case for.
SwitchKinds == {"String", "Int", "Slice", "Array", "Bool"}

\* The accessor call the switch makes for a field of one of these kinds.
AccessorFor(f) ==
    CASE f.ty.kind = "String" -> GetString(KeyOf(f.tag))
      [] f.ty.kind = "Int" -> GetInt64(KeyOf(f.tag))
      [] f.ty.kind = "Bool" -> GetBool(KeyOf(f.tag))
      [] OTHER -> GetStrings(KeyOf(f.tag))

QueryFailed(f) == Managed(f) /\ f.ty.kind \in SwitchKinds /\ AccessorFor(f).err # NilErr

QuerySucceeded(f) ==
    /\ Managed(f)
    /\ f.ty.kind \in SwitchKinds
    /\ AccessorFor(f).err = NilErr
    /\ ~AccessorFor(f).panic

\* Populating the field fails: its accessor returns an error, or the switch
\* has no case for its kind.
FieldFails(f) == QueryFailed(f) \/ (Managed(f) /\ f.ty.kind \notin SwitchKinds)

\* The value a field of a supported type holds once loaded from r over old.
LoadedValue(f, r, old) ==
    CASE f.ty.kind = "Int" -> Narrow(r.val, f.ty.w)
      [] f.ty.kind = "Array" ->
            [k \in 1..f.ty.cap |-> IF k <= Len(r.val) THEN r.val[k] ELSE old[k]]
      [] OTHER -> r.val

Ended == pc \in {"done", "panic"}

Called == pc \in {"returned", "panic"} /\ res.op # "-"

GitRan == fault \notin {"nospawn", "empty0"}

Last(s) == s[Len(s)]

(***************************** C1 *******************************************)
\* C1: when Load returns and no field has failed, the error it returns is the
\* nil error (err == nil); Load never returns a non-nil error that wraps a
\* LoadError without entries.
C1_NoFailureIsNilError ==
    (pc = "done" /\ arg = "ptrStruct")
        => /\ MapLen(errs) = 0 => ret = NilError
           /\ ~(ret.dyn = "LoadError" /\ Cardinality(DOMAIN ret.m) = 0)

(***************************** C2 *******************************************)
\* C2: once Load has ended (git behaving as documented), a field i that
\* failed has blocked no later field:
\* every managed field j after i has been processed, and holds its loaded
\* value when its own query succeeds.
C2_FailureNeverBlocks ==
    (Ended /\ fault = "none") =>
        \A i \in 1..Len(fields) : \A j \in 1..Len(fields) :
            (i < j /\ FieldFails(fields[i]) /\ Managed(fields[j]))
                => /\ idx > j
                   /\ QuerySucceeded(fields[j])
                        => rec[j] = LoadedValue(fields[j], AccessorFor(fields[j]), Before(fields, fresh)[j])

(***************************** C3 *******************************************)
\* C3: past the precondition check, the LoadError mapping has an entry under
\* the name of a field the loop has dealt with exactly when populating it
\* failed (its accessor returned an error, or the switch has no case for its
\* kind), and no entry under any other name; OfField is nil for a field
\* without a failure; the mapping Load returns is this one.
C3_EntryIffFieldFailed ==
    (pc \in {"loop", "done", "panic"} /\ arg = "ptrStruct")
        => /\ DOMAIN errs.m = {Name(k) : k \in {j \in 1..Len(fields) : j < idx /\ FieldFails(fields[j])}}
           /\ \A k \in 1..Len(fields) :
                (k < idx /\ ~FieldFails(fields[k])) => OfField(errs, Name(k)) = NilErr
           /\ pc = "done" => ret.m = errs.m

\* A call has returned with an entry for a field that failed (its query
\* failed, or its kind has no case) next to a field that was loaded and has
\* no entry.
C3_Witness ==
    /\ pc = "done"
    /\ ret.dyn = "LoadError"
    /\ \E i, j \in 1..Len(fields) :
          /\ QueryFailed(fields[i]) \/ fields[i].ty.kind \notin SwitchKinds
          /\ Name(i) \in DOMAIN ret.m
          /\ QuerySucceeded(fields[j]) /\ Name(j) \notin DOMAIN ret.m

(***************************** C4 *******************************************)
\* C4: a managed field whose type is none of the supported ones never makes
\* the call abort: Load does not panic on it, and the LoadError it returns
\* has an entry under the field's name.
C4_UnsupportedTypeRecorded ==
    \A k \in 1..Len(fields) :
        (arg = "ptrStruct" /\ fault = "none" /\ Managed(fields[k]) /\ ~Supported(fields[k].ty))
            => /\ ~(pc = "panic" /\ idx = k)
               /\ pc = "done" => (ret.dyn = "LoadError" /\ Name(k) \in DOMAIN ret.m)

(***************************** C5 *******************************************)
\* C5: called with anything but a pointer to a struct, Load goes from the
\* call straight to its return, returns a non-nil error that is no LoadError,
\* issues no query and leaves every field of every value as it was.
C5_PreconditionFailure ==
    arg # "ptrStruct"
        => /\ pc \in {"call", "done"}
           /\ queries = <<>>
           /\ rec = Before(fields, fresh)
           /\ pc = "done" => (ret # NilError /\ ret.dyn = "errorString")

\* Load has rejected a struct passed by value, whose field holds a value.
C5_Witness ==
    /\ pc = "done"
    /\ arg = "struct"
    /\ Len(fields) = 1
    /\ Managed(fields[1])
    /\ ~fresh
    /\ ret = ErrorfError

(***************************** C7 *******************************************)
\* C7: for a record whose fields are all managed, of the types string, int64,
\* bool and []string, and whose accessors all succeed, Load sets every field
\* to what the matching accessor returns and the result is success: the nil
\* error, with no per-field entry.
C7_LoadMatchesAccessors ==
    (/\ pc = "done"
     /\ arg = "ptrStruct"
     /\ Len(fields) > 0
     /\ \A k \in 1..Len(fields) :
           /\ fields[k].ty \in {T_String, T_Int64, T_Bool, T_SliceString}
           /\ QuerySucceeded(fields[k]))
        => /\ \A k \in 1..Len(fields) : rec[k] = AccessorFor(fields[k]).val
           /\ \A k \in 1..Len(fields) : OfField(errs, Name(k)) = NilErr
           /\ ret = NilError

(***************************** C8 *******************************************)
\* C8: when Load has returned one or more per-field failures, every field
\* whose query succeeded holds its loaded value and every other field holds
\* the value it had before the call.
C8_PartialPopulation ==
    (pc = "done" /\ ret.dyn = "LoadError" /\ Cardinality(DOMAIN ret.m) > 0)
        => \A k \in 1..Len(fields) :
              rec[k] = IF QuerySucceeded(fields[k])
                       THEN LoadedValue(fields[k], AccessorFor(fields[k]), Before(fields, fresh)[k])
                       ELSE Before(fields, fresh)[k]

\* Load has returned a failure for one field of a record that held values
\* and has stored a new value in another.
C8_Witness ==
    /\ pc = "done"
    /\ ~fresh
    /\ Cardinality(DOMAIN ret.m) > 0
    /\ \E i, j \in 1..Len(fields) :
          /\ QueryFailed(fields[i]) /\ rec[i] = Old(fields[i].ty)
          /\ QuerySucceeded(fields[j]) /\ rec[j] # Old(fields[j].ty)

(***************************** C6 *******************************************)
\* C6: with a git that runs, every accessor called for a key without values
\* returns an error IsInvalidKeyError accepts; and IsInvalidKeyError accepts
\* no other error: not nil, not a failure to start the process, not another
\* exit status, not an integer parse failure, not the error for a field kind
\* without a case, not the error of Load's precondition.
C6_AbsentKeyClassified ==
    /\ Called =>
          /\ (Stored(res.key) = <<>> /\ GitRan) => (~res.panic /\ IsInvalidKeyError(res.err))
          /\ IsInvalidKeyError(res.err) => (Stored(res.key) = <<>> /\ GitRan)
    /\ ~IsInvalidKeyError(NilErr)
    /\ ~IsInvalidKeyError(SpawnError)
    /\ \A st \in {-1, 0, 2, 128} : ~IsInvalidKeyError(RunError(st))
    /\ \A why \in {"syntax", "range"} : ~IsInvalidKeyError(NumError(why))
    /\ \A why \in {"cannot populate field", "not a pointer", "not a pointer to a struct"} :
          ~IsInvalidKeyError(ErrorString(why))

\* GetInt64 has returned the absent-key error for a key the store lacks.
C6_Witness ==
    /\ Called
    /\ res.op = "GetInt64"
    /\ res.key = KeyB
    /\ Stored(KeyA) # <<>>
    /\ IsInvalidKeyError(res.err)

(***************************** C9 *******************************************)
\* C9: for a key with one or more stored values, GetStrings returns exactly
\* the stored values, in order and with duplicates; GetString returns the
\* last of them, and GetPath the last of what GetPaths returns.
C9_StoredValuesRoundTrip ==
    (Called /\ fault = "none" /\ Stored(res.key) # <<>>)
        => /\ res.op = "GetStrings" => (res.err = NilErr /\ res.val = Stored(res.key))
           /\ res.op = "GetString" => (res.err = NilErr /\ res.val = Last(Stored(res.key)))
           /\ res.op = "GetPath" => (res.err = NilErr /\ res.val = Last(GetPaths(res.key).val))

\* GetStrings has returned an empty string twice, for a key that holds it twice.
C9_Witness ==
    /\ Called
    /\ fault = "none"
    /\ res.op = "GetStrings"
    /\ Stored(res.key) = <<V_empty, V_empty>>
    /\ res.val = <<<<>>, <<>>>>

(***************************** C10 ******************************************)
\* C10: every single-valued accessor takes its result from the last element
\* of the raw query result.
C10_LastValueWins ==
    (Called /\ ~res.panic /\ res.err = NilErr)
        => /\ res.op = "GetString" => res.val = Last(get(res.key, <<>>).vals)
           /\ res.op = "GetPath" => res.val = Last(get(res.key, <<S("--path")>>).vals)
           /\ res.op = "GetBool" => res.val = (Last(get(res.key, <<S("--bool")>>).vals) = Str_true)
           /\ res.op = "GetInt64" => res.val = ParseInt(Last(get(res.key, <<S("--int")>>).vals)).val

(***************************** C11 ******************************************)
\* C11: whatever the external process does, a query that succeeds yields one
\* value or more: GetStrings and GetPaths, which return what Config.get
\* returns, never return an empty list without an error, and no accessor
\* indexes an empty result.
C11_NeverEmptyOnSuccess ==
    Called =>
        /\ ~res.panic
        /\ (res.op \in {"GetStrings", "GetPaths"} /\ res.err = NilErr) => res.val # <<>>

(***************************** C12 ******************************************)
\* The outcome of the external process of the call that has been made.
ProcessOfCall == GitProcess(Last(queries))

\* The output is a sequence of values each followed by a NUL.
NulTerminated(out) == out = <<>> \/ Last(out) = NUL

\* The call has returned an error that is not the absent-key error.
OtherFailure == ~res.panic /\ res.err # NilErr /\ ~IsInvalidKeyError(res.err)

\* C12: an accessor returns a failure that is not the absent-key failure,
\* and no value list, when the process could not be started, when it exited
\* with a status other than 0 and 1, and when it exited with status 0 but
\* its output is not a sequence of NUL-terminated values.
C12_AdapterFailures ==
    Called =>
        /\ ~ProcessOfCall.spawned => OtherFailure
        /\ (ProcessOfCall.spawned /\ ProcessOfCall.status \notin {0, 1}) => OtherFailure
        /\ (ProcessOfCall.spawned /\ ProcessOfCall.status = 0 /\ ~NulTerminated(ProcessOfCall.out))
              => OtherFailure

(***************************** C13 ******************************************)
\* The type hint each accessor is to pass.
HintFor(op) ==
    CASE op \in {"GetPath", "GetPaths"} -> <<S("--path")>>
      [] op = "GetBool" -> <<S("--bool")>>
      [] op = "GetInt64" -> <<S("--int")>>
      [] OTHER -> <<>>

\* C13: the argument list of a query is config, --get-all, --null, the
\* tokens of the handle's Source (none, --global, --local, --file and a path,
\* --blob and a ref), the accessor's type hint if it has one, and the key
\* last; and a query never changes the handle's Source.
C13_ArgumentList ==
    /\ [](Called =>
            /\ Len(queries) = 1
            /\ source \in {<<>>, <<S("--global")>>, <<S("--local")>>,
                            <<S("--file"), S(".gitmodules")>>, <<S("--blob"), S("HEAD:.gitmodules")>>}
            /\ queries[1] = <<S("config"), S("--get-all"), S("--null")>>
                                \o source \o HintFor(res.op) \o <<res.key>>)
    /\ [][source' = source]_vars

\* GetPath has queried a handle made by File.
C13_Witness ==
    /\ Called
    /\ res.op = "GetPath"
    /\ queries = <<(<<S("config"), S("--get-all"), S("--null"), S("--file"), S(".gitmodules"),
                      S("--path"), KeyA>>)>>

(***************************** C14 ******************************************)
\* C14: once Load has returned (git behaving as documented) for an [n]string
\* field whose query gave m values, slot i holds value i for every i below
\* min(n, m), the values from index n on are dropped, every slot from index
\* m on holds the empty string, and the field has no failure.
C14_ArrayFill ==
    (pc = "done" /\ fault = "none" /\ QuerySucceeded(fields[1]))
        => /\ rec[1] = [k \in 1..fields[1].ty.cap |->
                          IF k <= Len(AccessorFor(fields[1]).val)
                          THEN AccessorFor(fields[1]).val[k] ELSE <<>>]
           /\ OfField(errs, Name(1)) = NilErr
           /\ Name(1) \notin DOMAIN ret.m

(***************************** C15 ******************************************)
\* The text of an annotation before its first comma.
RECURSIVE BeforeComma(_)
BeforeComma(tag) ==
    IF tag = <<>> \/ Head(tag) = "," THEN <<>> ELSE <<Head(tag)>> \o BeforeComma(Tail(tag))

\* The type hint of the query for a field of a kind.
HintOfKind(kind) ==
    CASE kind = "Int" -> <<S("--int")>>
      [] kind = "Bool" -> <<S("--bool")>>
      [] OTHER -> <<>>

\* The queries due for the first n fields: one for each tagged settable
\* field of a kind the switch has a case for, in declaration order.
RECURSIVE QueriesDue(_)
QueriesDue(n) ==
    IF n = 0 THEN <<>>
    ELSE IF Managed(fields[n]) /\ fields[n].ty.kind \in SwitchKinds
         THEN Append(QueriesDue(n - 1),
                     <<S("config"), S("--get-all"), S("--null")>> \o source
                         \o HintOfKind(fields[n].ty.kind) \o <<BeforeComma(fields[n].tag)>>)
    ELSE QueriesDue(n - 1)

FitsIn(x, w) == w >= 32 \/ (0 - Pow2(w - 1) <= x /\ x < Pow2(w - 1))

\* x reduced modulo 2^w into the signed integers of w bits.
Truncated(x, w) == ((x + Pow2(w - 1)) % Pow2(w)) - Pow2(w - 1)

\* C16: once Load has returned for an integer field of w bits whose query
\* GetInt64 parsed to x, the field holds x when x fits in w bits and x
\* reduced modulo 2^w otherwise, and the field has no failure.
C16_IntegerNarrowing ==
    (pc = "done" /\ QuerySucceeded(fields[1]))
        => /\ rec[1] = IF FitsIn(GetInt64(KeyA).val, fields[1].ty.w)
                       THEN GetInt64(KeyA).val
                       ELSE Truncated(GetInt64(KeyA).val, fields[1].ty.w)
           /\ OfField(errs, Name(1)) = NilErr
           /\ Name(1) \notin DOMAIN ret.m

\* Load has stored -56 in an int8 field for the value 200.
C16_Witness ==
    /\ pc = "done"
    /\ fields[1].ty.w = 8
    /\ store[KeyA] # <<>>
    /\ store[KeyA][1] = V_200
    /\ GetInt64(KeyA).val = 200
    /\ rec[1] = -56
    /\ Name(1) \notin DOMAIN ret.m

(***************************** C17 ******************************************)
\* The zero value of what an accessor returns: the empty string, the nil
\* list, false, 0.
ZeroResult(op) ==
    CASE op = "GetBool" -> FALSE
      [] op = "GetInt64" -> 0
      [] OTHER -> <<>>

\* C17: an accessor that returns a non-nil error returns the zero value of
\* its type with it, whatever the failure: also when GetInt64 cannot parse
\* the first value, malformed or out of range.
C17_ZeroValueOnError ==
    (Called /\ ~res.panic /\ res.err # NilErr) => res.val = ZeroResult(res.op)

(***************************** C18 ******************************************)
\* Load panics at the field: an accessor indexes an empty result, or a
\* string is set into a slice or an array of another type.
PanicsOn(f) ==
    /\ Managed(f)
    /\ f.ty.kind \in SwitchKinds
    /\ \/ AccessorFor(f).panic
       \/ /\ f.ty.kind \in {"Slice", "Array"}
          /\ f.ty.elem # "string"
          /\ AccessorFor(f).err = NilErr
          /\ f.ty.kind = "Array" => Min(f.ty.cap, Len(AccessorFor(f).val)) > 0

\* The first field from k on at which a call running alone panics; the
\* number of fields plus one when it returns.
RECURSIVE AloneStop(_, _)
AloneStop(fs, k) ==
    IF k > Len(fs) \/ PanicsOn(fs[k]) THEN k ELSE AloneStop(fs, k + 1)

\* What a call running alone leaves in field k once it is past it.
AloneValue(fs, k) ==
    IF QuerySucceeded(fs[k])
    THEN LoadedValue(fs[k], AccessorFor(fs[k]), Before(fs, fresh)[k])
    ELSE Before(fs, fresh)[k]

\* The failure a call running alone records for a field that fails.
AloneError(f) ==
    IF f.ty.kind \in SwitchKinds THEN AccessorFor(f).err ELSE ErrorString("cannot populate field")

\* The call c is where a call running alone on the same record is after as
\* many fields: the fields passed hold what that call leaves in them, the
\* others what they held before, the mapping has that call's entries.
AsAlone(c) ==
    (c.pc \in {"loop", "done", "panic"}) =>
        /\ c.idx <= AloneStop(c.fields, 1)
        /\ c.pc = "done" => c.idx = Len(c.fields) + 1
        /\ c.pc = "panic" => c.idx = AloneStop(c.fields, 1)
        /\ \A k \in 1..Len(c.fields) :
              c.rec[k] = IF k < c.idx THEN AloneValue(c.fields, k) ELSE Before(c.fields, fresh)[k]
        /\ DOMAIN c.errs.m = {Name(k) : k \in {j \in 1..Len(c.fields) : j < c.idx /\ FieldFails(c.fields[j])}}
        /\ \A k \in 1..Len(c.fields) :
              Name(k) \in DOMAIN c.errs.m => c.errs.m[Name(k)] = AloneError(c.fields[k])
        /\ c.pc = "done" => c.ret = AsError(LoadErrorAny(c.errs))

\* C18: under every interleaving of the per-field steps of two Load calls
\* that share a handle and write to records of their own, against a store
\* that does not change, each call is at every step, and when it ends,
\* where it would be had it run alone: same record contents, same result
\* mapping; and the shared Source is never written.
C18_ConcurrentLoads ==
    /\ [](AsAlone(Running(3 - peer.id)) /\ AsAlone(peer))
    /\ [][source' = source]_vars

\* One call has returned, with a failure for its first field and its second
\* field loaded, while the other call is between its two fields.
C18_Witness ==
    /\ peer.id # 0
    /\ pc = "done"
    /\ Name(1) \in DOMAIN ret.m
    /\ QuerySucceeded(fields[2]) /\ rec[2] # Before(fields, fresh)[2]
    /\ peer.pc = "loop"
    /\ peer.idx = 2
    /\ QuerySucceeded(peer.fields[1]) /\ peer.rec[1] # Before(peer.fields, fresh)[1]
====
